---- MODULE Spec2Model ----
(***************************************************************************)
(* Model of src/data.preview.ts: the DataPreview session (refresh,         *)
(* getFileData and its decoders, the webview message handler, the          *)
(* asynchronous Avro block decoder) and the pure helpers flattenObject     *)
(* and getArrowData.                                                       *)
(*                                                                         *)
(* JavaScript strings that the code indexes (file names, Arrow type tags)  *)
(* are tuples of one-character strings.  A JavaScript object is a tuple of *)
(* [k, v] pairs in property order.                                         *)
(***************************************************************************)
EXTENDS Integers, Sequences, FiniteSets, TLC

VARIABLES
  _uri,        \* DataPreview._uri: [dir, base]
  _fileName,   \* DataPreview._fileName
  _config,     \* DataPreview._config
  _schema,     \* DataPreview._schema: [defined, fields]
  posted,      \* messages handed to webview.postMessage, in order, each with the call that caused it
  decoders,    \* in-flight avro block decoders, one per getAvroData call, keyed by call number
  calls,       \* one record per refresh() call: what the call did
  _panel,      \* DataPreview._panel: [disposed]
  _disposables,\* DataPreview._disposables: the listeners still registered
  managed,     \* whether previewManager holds this preview
  pc,          \* "session", or the position of a pure-function run
  obj,         \* flattenObject: argument
  flatObject,  \* flattenObject: result
  dataTable,   \* getArrowData: the parsed Arrow table
  rows         \* getArrowData: result

vars == <<_uri, _fileName, _config, _schema, posted, decoders, calls,
          _panel, _disposables, managed, pc,
          obj, flatObject, dataTable, rows>>

----------------------------------------------------------------------------
(* Bounds *)

MaxCalls == 2     \* refresh() calls in one behaviour
MaxProps == 4     \* properties, nested ones included, of a record given to flattenObject
MaxFields == 2    \* fields of an Arrow table
MaxLength == 2    \* rows of an Arrow table

----------------------------------------------------------------------------
(* JavaScript string and object primitives *)

SetMax(S) == CHOOSE x \in S : \A y \in S : y <= x
SetMin(S) == CHOOSE x \in S : \A y \in S : x <= y

\* String.prototype.lastIndexOf(ch): zero-based, -1 when absent
lastIndexOf(s, ch) ==
  LET I == {i \in 1..Len(s) : s[i] = ch}
  IN IF I = {} THEN -1 ELSE SetMax(I) - 1

\* String.prototype.indexOf(ch): zero-based, -1 when absent
indexOf(s, ch) ==
  LET I == {i \in 1..Len(s) : s[i] = ch}
  IN IF I = {} THEN -1 ELSE SetMin(I) - 1

\* String.prototype.substr(start): a negative start counts from the end
substr(s, start) ==
  LET b == IF start < 0
             THEN (IF Len(s) + start < 0 THEN 0 ELSE Len(s) + start)
             ELSE (IF start > Len(s) THEN Len(s) ELSE start)
  IN SubSeq(s, b + 1, Len(s))

\* String.prototype.substring(0, end)
substring(s, end) == SubSeq(s, 1, end)

Pair(key, val) == [k |-> key, v |-> val]

HasKey(o, key) == \E i \in 1..Len(o) : o[i].k = key

\* o[key]: the value of property key (key is a property of o)
Get(o, key) == o[CHOOSE i \in 1..Len(o) : o[i].k = key].v

Keys(o) == {o[i].k : i \in 1..Len(o)}

\* o[key] = val: an existing property keeps its place, a new one is appended
SetProp_first(o, key, val) ==
  IF HasKey(o, key) THEN o ELSE Append(o, Pair(key, val))

SetProp(o, key, val) ==
  IF HasKey(o, key)
    THEN [i \in 1..Len(o) |-> IF o[i].k = key THEN Pair(key, val) ELSE o[i]]
    ELSE Append(o, Pair(key, val))

\* Object.assign(target, source)
RECURSIVE ObjectAssign(_, _)
ObjectAssign(target, source) ==
  IF source = <<>> THEN target
  ELSE ObjectAssign(SetProp(target, Head(source).k, Head(source).v), Tail(source))

----------------------------------------------------------------------------
(* flattenObject *)

\* A property value: a scalar, null, or a nested object
Scalar(n) == [kind |-> "scalar", s |-> n, o |-> <<>>]
Null      == [kind |-> "null",   s |-> 0, o |-> <<>>]
Object(p) == [kind |-> "object", s |-> 0, o |-> p]

\* typeof v === 'object' && v !== null
IsNestedObject(val) == val.kind = "object"

RECURSIVE flattenObject(_)
flattenObject(o) ==
  LET RECURSIVE forEach(_, _)
      forEach(i, flat) ==
        IF i > Len(o) THEN flat
        ELSE forEach(i + 1,
               IF IsNestedObject(o[i].v)
                 THEN ObjectAssign(flat, flattenObject(o[i].v.o))
                 ELSE SetProp(flat, o[i].k, o[i].v))
  IN forEach(1, <<>>)

\* Array.prototype.map(rowObject => this.flattenObject(rowObject))
mapFlatten(dataRows) == [i \in 1..Len(dataRows) |-> flattenObject(dataRows[i])]

----------------------------------------------------------------------------
(* config.dataTypes and getArrowData *)

Binary     == <<"B","i","n","a","r","y">>
Bool       == <<"B","o","o","l">>
Date       == <<"D","a","t","e">>
Dictionary == <<"D","i","c","t","i","o","n","a","r","y">>
Float32    == <<"F","l","o","a","t","3","2">>
Float64    == <<"F","l","o","a","t","6","4">>
Int8       == <<"I","n","t","8">>
Int16      == <<"I","n","t","1","6">>
Int32      == <<"I","n","t","3","2">>
Int64      == <<"I","n","t","6","4">>
Timestamp  == <<"T","i","m","e","s","t","a","m","p">>
Utf8       == <<"U","t","f","8">>

\* config.dataTypes[fieldType]; a missing property reads as undefined
dataTypes(fieldType) ==
  CASE fieldType \in {Binary, Dictionary, Utf8}      -> "string"
    [] fieldType = Bool                             -> "boolean"
    [] fieldType = Date                             -> "date"
    [] fieldType \in {Float32, Float64}             -> "float"
    [] fieldType \in {Int8, Int16, Int32, Int64}    -> "integer"
    [] fieldType = Timestamp                        -> "datetime"
    [] OTHER                                        -> "undefined"

\* lines 392-396 without the truncation
fieldTypeBase_whole(fieldType) == fieldType

\* lines 392-396: the type tag cut at its first '<', unless that is its first character
fieldTypeBase(fieldType) ==
  LET typesIndex == indexOf(fieldType, "<")
  IN IF typesIndex > 0 THEN substring(fieldType, typesIndex) ELSE fieldType

\* lines 378-387: row i reads the i-th value of every column, in schema order
arrowRow(table, i) ==
  LET RECURSIVE forEach(_, _)
      forEach(index, proto) ==
        IF index > Len(table.fields) THEN proto
        ELSE forEach(index + 1,
               SetProp(proto, table.fields[index].name, table.fields[index].column[i]))
  IN forEach(1, <<>>)

\* lines 390-398: the schema, one assignment per field, in schema order
arrowSchema(table) ==
  LET RECURSIVE forEach(_, _)
      forEach(index, schema) ==
        IF index > Len(table.fields) THEN schema
        ELSE forEach(index + 1,
               SetProp(schema, table.fields[index].name,
                       dataTypes(fieldTypeBase(table.fields[index].type))))
  IN forEach(1, <<>>)

\* getArrowData after Table.from: the rows returned and the schema stored
getArrowData(table) ==
  [rows   |-> [i \in 1..table.length |-> arrowRow(table, i)],
   schema |-> [defined |-> TRUE, fields |-> arrowSchema(table)]]

NoSchema == [defined |-> FALSE, fields |-> <<>>]

----------------------------------------------------------------------------
(* The extension table of getFileData *)

csv     == <<".","c","s","v">>
tsv     == <<".","t","s","v">>
txt     == <<".","t","x","t">>
tab     == <<".","t","a","b">>
json    == <<".","j","s","o","n">>
xls     == <<".","x","l","s">>
xlsb    == <<".","x","l","s","b">>
xlsx    == <<".","x","l","s","x">>
xlsm    == <<".","x","l","s","m">>
slk     == <<".","s","l","k">>
ods     == <<".","o","d","s">>
prn     == <<".","p","r","n">>
dif     == <<".","d","i","f">>
xml     == <<".","x","m","l">>
html    == <<".","h","t","m","l">>
arrow   == <<".","a","r","r","o","w">>
avro    == <<".","a","v","r","o">>
parquet == <<".","p","a","r","q","u","e","t">>

TextExts        == {csv, tsv, txt, tab, json}
BinaryExcelExts == {xls, xlsb, xlsx, xlsm, slk, ods, prn}
TextExcelExts   == {dif, xml, html}
KnownExts       == TextExts \cup BinaryExcelExts \cup TextExcelExts \cup {arrow, avro, parquet}

\* line 275
dataFileExtOf(filePath) == substr(filePath, lastIndexOf(filePath, "."))

\* The files a session may be opened on: every extension of the table, and
\* names outside it (another extension, another case, two dots, no dot)
FileNames ==
  {<<"a">> \o e : e \in KnownExts}
  \cup { <<"a",".","f","o","o">>,
         <<"a",".","C","S","V">>,
         <<"a",".","c","s","v",".","b","a","k">>,
         <<"a",".","b",".","c","s","v">>,
         <<"a","v","r","o">> }

Configs == {"c0", "c1"}

----------------------------------------------------------------------------
(* What a refresh() finds on disk: the environment's choice at each call *)

Row1 == <<Pair("a", 1)>>
Row2 == <<Pair("a", 2), Pair("b", 1)>>

Workbooks ==
  { [SheetNames |-> <<>>,           Sheets |-> [n \in {} |-> <<>>]],
    [SheetNames |-> <<"S1">>,       Sheets |-> [n \in {"S1"} |-> <<>>]],
    [SheetNames |-> <<"S1">>,       Sheets |-> [n \in {"S1"} |-> <<Row1>>]],
    [SheetNames |-> <<"S1", "S2">>, Sheets |-> [n \in {"S1", "S2"} |->
                                        IF n = "S1" THEN <<>> ELSE <<Row1, Row2>>]],
    [SheetNames |-> <<"S2", "S1">>, Sheets |-> [n \in {"S1", "S2"} |->
                                        IF n = "S1" THEN <<Row1>> ELSE <<Row2, Row1>>]] }

EmptyTable == [length |-> 0, fields |-> <<>>]

SessionTables ==
  { EmptyTable,
    [length |-> 0, fields |-> <<[name |-> "a", type |-> Int32, column |-> <<>>]>>],
    [length |-> 1, fields |-> <<[name |-> "a", type |-> Int32, column |-> <<1>>]>>],
    [length |-> 2, fields |-> <<[name |-> "a", type |-> Utf8,  column |-> <<1, 2>>],
                                [name |-> "b", type |-> Int32, column |-> <<2, 2>>]>>] }

Nested1 == <<Pair("a", Scalar(1)), Pair("b", Object(<<Pair("a", Scalar(2)), Pair("c", Null)>>))>>
Flat1   == <<Pair("a", Scalar(1))>>

AvroFiles == { <<>>, <<Flat1>>, <<Nested1, Flat1>> }

NoFile ==
  [exists |-> FALSE, malformed |-> FALSE, text |-> <<>>,
   workbook |-> CHOOSE w \in Workbooks : w.SheetNames = <<>>,
   table |-> EmptyTable, avroRows |-> <<>>]

Malformed == [NoFile EXCEPT !.exists = TRUE, !.malformed = TRUE]

\* The contents a file of the given extension can have
Files(ext) ==
  {NoFile} \cup
  CASE ext \in TextExts ->
         {Malformed} \cup {[NoFile EXCEPT !.exists = TRUE, !.text = t] : t \in {<<>>, <<"x", "y">>}}
    [] ext \in BinaryExcelExts \cup TextExcelExts ->
         {Malformed} \cup {[NoFile EXCEPT !.exists = TRUE, !.workbook = w] : w \in Workbooks}
    [] ext = arrow ->
         {Malformed} \cup {[NoFile EXCEPT !.exists = TRUE, !.table = t] : t \in SessionTables}
    [] ext = avro ->
         {[NoFile EXCEPT !.exists = TRUE, !.avroRows = r] : r \in AvroFiles}
    [] OTHER ->
         {[NoFile EXCEPT !.exists = TRUE]}

----------------------------------------------------------------------------
(* getFileData and the decoders it dispatches to *)

\* What getFileData gives back to refresh(): whether it threw, the value
\* returned (null, or a string / an array), the schema it left in _schema,
\* the notices shown, the error-level log lines written, the decoder that
\* ran, and the avro block decoder it started
Result(thrown, isNull, data, schema, notices, errorLogs, decoder, started) ==
  [thrown |-> thrown, isNull |-> isNull, data |-> data, schema |-> schema,
   notices |-> notices, errorLogs |-> errorLogs, decoder |-> decoder, started |-> started]

NoDecoder == [phase |-> "none", src |-> <<>>, pos |-> 0, dataRows |-> <<>>, rows |-> <<>>]

Returned(data, schema, decoder) ==
  Result(FALSE, FALSE, data, schema, <<>>, 0, decoder, NoDecoder)

Thrown(decoder) ==
  Result(TRUE, FALSE, <<>>, _schema, <<>>, 0, decoder, NoDecoder)

\* lines 347-368: the rows of the first sheet, or no rows
getExcelData(workbook) ==
  IF Len(workbook.SheetNames) > 0
    THEN workbook.Sheets[workbook.SheetNames[1]]
    ELSE <<>>

\* lines 426-447: the block decoder is created and `rows`, still empty, is returned
getAvroData(file) ==
  [rows    |-> <<>>,
   decoder |-> [phase |-> "header", src |-> file.avroRows, pos |-> 0,
                dataRows |-> <<>>, rows |-> <<>>]]

getFileData(filePath, file) ==
  LET dataFileExt == dataFileExtOf(filePath)
  IN IF ~file.exists
       THEN Result(FALSE, TRUE, <<>>, _schema,
                   <<[level |-> "error", text |-> "doesn't exist!"]>>, 1, "none", NoDecoder)
       ELSE CASE dataFileExt \in TextExts ->
                   IF file.malformed THEN Thrown("readFileSync")
                   ELSE Returned(file.text, _schema, "readFileSync")
              [] dataFileExt \in BinaryExcelExts ->
                   IF file.malformed THEN Thrown("getBinaryExcelData")
                   ELSE Returned(getExcelData(file.workbook), _schema, "getBinaryExcelData")
              [] dataFileExt \in TextExcelExts ->
                   IF file.malformed THEN Thrown("getTextExcelData")
                   ELSE Returned(getExcelData(file.workbook), _schema, "getTextExcelData")
              [] dataFileExt = arrow ->
                   IF file.malformed THEN Thrown("getArrowData")
                   ELSE Returned(getArrowData(file.table).rows,
                                 getArrowData(file.table).schema, "getArrowData")
              [] dataFileExt = avro ->
                   Result(FALSE, FALSE, getAvroData(file).rows, _schema, <<>>, 0,
                          "getAvroData", getAvroData(file).decoder)
              [] dataFileExt = parquet ->
                   Result(FALSE, TRUE, <<>>, _schema,
                          <<[level |-> "information",
                             text |-> "Parquet data format support coming soon!"]>>,
                          0, "none", NoDecoder)
              [] OTHER ->
                   Result(FALSE, TRUE, <<>>, _schema, <<>>, 0, "none", NoDecoder)

----------------------------------------------------------------------------
(* refresh() *)

\* lines 538-540: the config getter
config_initial == "c0"

config == _config

\* lines 242-249 and 437-444: the refresh payload
refreshPayload(data, schema) ==
  [command |-> "refresh", fileName |-> _fileName, uri |-> _uri,
   config |-> config, schema |-> schema, data |-> data]

\* lines 252-255 as they would be without the catch clause
refreshOutcome_uncaught(r) ==
  IF r.thrown \/ r.isNull
    THEN [posts |-> <<>>, errorLogs |-> 0, escaped |-> TRUE]
    ELSE [posts |-> IF Len(r.data) > 0 THEN <<refreshPayload(r.data, r.schema)>> ELSE <<>>,
          errorLogs |-> 0, escaped |-> FALSE]

\* line 240 as it would be without the length test
refreshOutcome_unguarded(r) ==
  IF r.thrown \/ r.isNull
    THEN [posts |-> <<[error |-> IF r.thrown THEN "Error" ELSE "TypeError"]>>,
          errorLogs |-> 1, escaped |-> FALSE]
    ELSE [posts |-> <<refreshPayload(r.data, r.schema)>>,
          errorLogs |-> 0, escaped |-> FALSE]

\* lines 237-255: the try block posts the data when its length is positive;
\* reading the length of null throws a TypeError inside the try block; the
\* catch clause logs whatever was thrown and posts it as {error}
refreshOutcome(r) ==
  IF r.thrown \/ r.isNull
    THEN [posts |-> <<[error |-> IF r.thrown THEN "Error" ELSE "TypeError"]>>,
          errorLogs |-> 1, escaped |-> FALSE]
    ELSE [posts |-> IF Len(r.data) > 0 THEN <<refreshPayload(r.data, r.schema)>> ELSE <<>>,
          errorLogs |-> 0, escaped |-> FALSE]

PostedBy(msgs, id, sync) ==
  [i \in 1..Len(msgs) |-> [msg |-> msgs[i], call |-> id, sync |-> sync]]

\* lines 151-177: the listeners initWebview registers in _disposables
Listeners == {"onDidDispose", "onDidChangeViewState", "onDidReceiveMessage"}

\* refresh(), called by the preview manager while it holds the preview, or on
\* a 'refresh' message while the message listener is registered (lines 164-167)
refresh ==
  /\ pc = "session"
  /\ managed \/ "onDidReceiveMessage" \in _disposables
  /\ Len(calls) < MaxCalls
  /\ \E file \in Files(dataFileExtOf(_fileName)) :
       LET id  == Len(calls) + 1
           r   == getFileData(_fileName, file)
           out == refreshOutcome(r)
       IN /\ _schema' = r.schema
          /\ posted' = posted \o PostedBy(out.posts, id, TRUE)
          /\ decoders' = IF r.started.phase = "none" THEN decoders
                         ELSE (id :> r.started) @@ decoders
          /\ calls' = Append(calls,
                        [exists    |-> file.exists,
                         ext       |-> dataFileExtOf(_fileName),
                         decoder   |-> r.decoder,
                         thrown    |-> r.thrown,
                         isNull    |-> r.isNull,
                         length    |-> Len(r.data),
                         data      |-> r.data,
                         schema    |-> r.schema,
                         config    |-> _config,
                         notices   |-> r.notices,
                         errorLogs |-> r.errorLogs + out.errorLogs,
                         escaped   |-> out.escaped])
  /\ UNCHANGED <<_uri, _fileName, _config, _panel, _disposables, managed, pc,
                 obj, flatObject, dataTable, rows>>

\* lines 168-175: a 'config' message replaces the configuration
onConfigMessage ==
  /\ pc = "session"
  /\ "onDidReceiveMessage" \in _disposables
  /\ \E c \in Configs : _config' = c
  /\ UNCHANGED <<_uri, _fileName, _schema, posted, decoders, calls,
                 _panel, _disposables, managed, pc,
                 obj, flatObject, dataTable, rows>>

----------------------------------------------------------------------------
(* The events of an avro block decoder *)

\* line 432 with one buffer shared by the session's decoders
pushData_shared(decs, d, data) ==
  [e \in DOMAIN decs |->
     IF decs[e].phase # "ended"
       THEN [decs[e] EXCEPT !.dataRows = Append(@, data)]
       ELSE decs[e]]

\* line 432: dataRows.push(data), on the buffer of this getAvroData call
pushData(decs, d, data) ==
  [decs EXCEPT ![d].dataRows = Append(@, data)]

\* line 434 without the flattening
endRows_raw(dataRows) == dataRows

\* line 434
endRows(dataRows) == mapFlatten(dataRows)

\* line 431: the header has been read
onMetadata(d) ==
  /\ pc = "session"
  /\ d \in DOMAIN decoders
  /\ decoders[d].phase = "header"
  /\ decoders' = [decoders EXCEPT ![d].phase = "data"]
  /\ UNCHANGED <<_uri, _fileName, _config, _schema, posted, calls,
                 _panel, _disposables, managed, pc,
                 obj, flatObject, dataTable, rows>>

\* line 432: the next row of the file
onData(d) ==
  /\ pc = "session"
  /\ d \in DOMAIN decoders
  /\ decoders[d].phase = "data"
  /\ decoders[d].pos < Len(decoders[d].src)
  /\ decoders' = [pushData(decoders, d, decoders[d].src[decoders[d].pos + 1])
                    EXCEPT ![d].pos = @ + 1]
  /\ UNCHANGED <<_uri, _fileName, _config, _schema, posted, calls,
                 _panel, _disposables, managed, pc,
                 obj, flatObject, dataTable, rows>>

\* lines 433-445: the end of the file
onEnd(d) ==
  /\ pc = "session"
  /\ d \in DOMAIN decoders
  /\ decoders[d].phase = "data"
  /\ decoders[d].pos = Len(decoders[d].src)
  /\ LET rws == endRows(decoders[d].dataRows)
     IN /\ decoders' = [decoders EXCEPT ![d].phase = "ended", ![d].rows = rws]
        /\ posted' = posted \o PostedBy(<<refreshPayload(rws, _schema)>>, d, FALSE)
  /\ UNCHANGED <<_uri, _fileName, _config, _schema, calls,
                 _panel, _disposables, managed, pc,
                 obj, flatObject, dataTable, rows>>

----------------------------------------------------------------------------
(* dispose() *)

\* lines 489-498, called by the preview manager or by the panel's
\* onDidDispose listener (lines 151-153): the preview leaves the manager, the
\* panel is disposed and every registered listener is disposed.  The block
\* decoders of getAvroData are not in _disposables and keep running.
dispose ==
  /\ pc = "session"
  /\ managed \/ "onDidDispose" \in _disposables
  /\ managed' = FALSE
  /\ _panel' = [_panel EXCEPT !.disposed = TRUE]
  /\ _disposables' = {}
  /\ UNCHANGED <<_uri, _fileName, _config, _schema, posted, decoders, calls, pc,
                 obj, flatObject, dataTable, rows>>

----------------------------------------------------------------------------
(* The session *)

Init ==
  /\ _uri \in {[dir |-> "d", base |-> n] : n \in FileNames}
  /\ _fileName = _uri.base
  /\ _config \in Configs
  /\ _schema = NoSchema
  /\ posted = <<>>
  /\ decoders = <<>>
  /\ calls = <<>>
  /\ _panel = [disposed |-> FALSE]
  /\ _disposables = Listeners
  /\ managed = TRUE
  /\ pc = "session"
  /\ obj = <<>>
  /\ flatObject = <<>>
  /\ dataTable = EmptyTable
  /\ rows = <<>>

Next ==
  \/ refresh
  \/ onConfigMessage
  \/ \E d \in 1..MaxCalls : onMetadata(d)
  \/ \E d \in 1..MaxCalls : onData(d)
  \/ \E d \in 1..MaxCalls : onEnd(d)
  \/ dispose

Spec == Init /\ [][Next]_vars

\* The event loop delivers every event of a decoder that has one pending
FairSpec ==
  /\ Spec
  /\ \A d \in 1..MaxCalls : WF_vars(onMetadata(d) \/ onData(d) \/ onEnd(d))

----------------------------------------------------------------------------
(* flattenObject on its own: every acyclic record of at most MaxProps
   properties over two property names *)

PropNames == {"a", "b"}

Scalars == {Scalar(1), Null}

\* ObjectsOfSize(n): the records with at most n properties in all;
\* a nested record counts the properties it holds
RECURSIVE ObjectsOfSize(_)
ObjectsOfSize(n) ==
  LET Values(m) == Scalars \cup {Object(p) : p \in ObjectsOfSize(m)}
      One == IF n < 1 THEN {}
             ELSE {<<Pair(key, val)>> : key \in PropNames, val \in Values(n - 1)}
      Two == IF n < 2 THEN {}
             ELSE UNION {
                    {<<Pair(k1, v1), Pair(k2, v2)>> :
                        k1 \in PropNames, k2 \in PropNames,
                        v1 \in Values(c), v2 \in Values(n - 2 - c)}
                    : c \in 0..(n - 2)}
  IN {<<>>} \cup One \cup {o \in Two : o[1].k # o[2].k}

InitFlatten ==
  /\ _uri = [dir |-> "d", base |-> <<"a">> \o avro]
  /\ _fileName = _uri.base
  /\ _config = "c0"
  /\ _schema = NoSchema
  /\ posted = <<>>
  /\ decoders = <<>>
  /\ calls = <<>>
  /\ _panel = [disposed |-> FALSE]
  /\ _disposables = Listeners
  /\ managed = TRUE
  /\ pc = "flatten"
  /\ obj \in ObjectsOfSize(MaxProps)
  /\ flatObject = <<>>
  /\ dataTable = EmptyTable
  /\ rows = <<>>

callFlattenObject ==
  /\ pc = "flatten"
  /\ flatObject' = flattenObject(obj)
  /\ pc' = "flattened"
  /\ UNCHANGED <<_uri, _fileName, _config, _schema, posted, decoders, calls,
                 _panel, _disposables, managed, obj, dataTable, rows>>

NextFlatten == callFlattenObject

SpecFlatten == InitFlatten /\ [][NextFlatten]_vars

----------------------------------------------------------------------------
(* getArrowData on its own: every table of at most MaxFields fields and
   MaxLength rows *)

ListOfInt32 == <<"L","i","s","t","<","I","n","t","3","2",">">>
List        == <<"L","i","s","t">>
TimestampOf == <<"T","i","m","e","s","t","a","m","p","<","S",">">>
OpenFirst   == <<"<","I","n","t","3","2">>

TypeTags == {Int32, ListOfInt32, List, TimestampOf, OpenFirst}

FieldNames == {"a", "b"}

\* Two columns that differ in every row, and whose rows differ
Columns(length) == { [i \in 1..length |-> i], [i \in 1..length |-> length + i] }

\* The tables of at most maxFields fields and maxLength rows
Tables(maxFields, maxLength) ==
  UNION { UNION {
      { [length |-> length, fields |-> fs] :
          fs \in [1..n -> [name : FieldNames, type : TypeTags, column : Columns(length)]] }
      : n \in 0..maxFields }
    : length \in 0..maxLength }

InitArrow ==
  /\ _uri = [dir |-> "d", base |-> <<"a">> \o arrow]
  /\ _fileName = _uri.base
  /\ _config = "c0"
  /\ _schema = NoSchema
  /\ posted = <<>>
  /\ decoders = <<>>
  /\ calls = <<>>
  /\ _panel = [disposed |-> FALSE]
  /\ _disposables = Listeners
  /\ managed = TRUE
  /\ pc = "arrow"
  /\ obj = <<>>
  /\ flatObject = <<>>
  /\ dataTable \in Tables(MaxFields, MaxLength)
  /\ rows = <<>>

callGetArrowData ==
  /\ pc = "arrow"
  /\ rows' = getArrowData(dataTable).rows
  /\ _schema' = getArrowData(dataTable).schema
  /\ pc' = "decoded"
  /\ UNCHANGED <<_uri, _fileName, _config, posted, decoders, calls,
                 _panel, _disposables, managed, obj, flatObject, dataTable>>

NextArrow == callGetArrowData

SpecArrow == InitArrow /\ [][NextArrow]_vars

----------------------------------------------------------------------------
(* Properties *)

IsRefresh(m) == "command" \in DOMAIN m /\ m.command = "refresh"
IsError(m)   == "error" \in DOMAIN m

\* The positions in `posted` of the messages caused by refresh() call c
PostsOf(c)     == {i \in 1..Len(posted) : posted[i].call = c}
SyncPostsOf(c) == {i \in PostsOf(c) : posted[i].sync}
RefreshesOf(c) == {i \in PostsOf(c) : IsRefresh(posted[i].msg)}
ErrorsOf(c)    == {i \in PostsOf(c) : IsError(posted[i].msg)}

CallIds == 1..Len(calls)

\* The decode of call c returned a value (it neither threw nor gave null)
DecodeSucceeded(c) == ~calls[c].thrown /\ ~calls[c].isNull

\* Call c has nothing left to deliver
Complete(c) == c \in DOMAIN decoders => decoders[c].phase = "ended"

\* C1: refresh() never lets a failure escape: whatever getFileData does
\* (decoder throws, file missing, unknown extension, unimplemented format)
\* the call returns normally; and when a decoder throws, exactly one error
\* payload and no refresh payload is posted for that call.
C1_RefreshNeverThrows ==
  \A c \in CallIds :
    /\ ~calls[c].escaped
    /\ calls[c].thrown =>
         /\ Cardinality(ErrorsOf(c)) = 1
         /\ PostsOf(c) = ErrorsOf(c)
         /\ RefreshesOf(c) = {}

C1_Witness ==
  \E c \in CallIds :
    /\ calls[c].thrown
    /\ calls[c].decoder = "getArrowData"
    /\ Cardinality(ErrorsOf(c)) = 1

\* C2 as stated: every refresh() whose decode succeeds posts exactly one
\* refresh payload (command, fileName, uri, config, schema, data), an empty
\* result included.
C2_Original ==
  \A c \in CallIds :
    (DecodeSucceeded(c) /\ Complete(c)) =>
      /\ Cardinality(RefreshesOf(c)) = 1
      /\ PostsOf(c) = RefreshesOf(c)

\* C2 amended: a refresh() whose decoder returns a non-empty result posts,
\* during the call, exactly one message, the refresh payload carrying that
\* result with the file name, uri, configuration and schema; a refresh()
\* whose decoder returns an empty result posts nothing during the call.
C2_NonEmptyResultPosted ==
  \A c \in CallIds :
    DecodeSucceeded(c) =>
      IF calls[c].length > 0
        THEN /\ Cardinality(PostsOf(c)) = 1
             /\ \A i \in PostsOf(c) :
                  /\ posted[i].sync
                  /\ posted[i].msg =
                       [command |-> "refresh", fileName |-> _fileName, uri |-> _uri,
                        config |-> calls[c].config, schema |-> calls[c].schema,
                        data |-> calls[c].data]
        ELSE SyncPostsOf(c) = {}

C2_Witness ==
  \E c1 \in CallIds, c2 \in CallIds :
    /\ DecodeSucceeded(c1) /\ calls[c1].length = 0
    /\ calls[c1].decoder = "getBinaryExcelData" /\ PostsOf(c1) = {}
    /\ DecodeSucceeded(c2) /\ calls[c2].length > 0
    /\ Cardinality(RefreshesOf(c2)) = 1

\* C3: for an .avro file of n >= 0 rows, getAvroData returns the empty
\* sequence, so refresh() posts nothing during the call; nothing is posted
\* before the decoder's end event; the end event posts exactly one refresh
\* payload, whose data are the n rows of the file, flattened, in order.
C3_AvroDeliveredAtEnd ==
  \A c \in CallIds :
    calls[c].decoder = "getAvroData" =>
      /\ calls[c].length = 0
      /\ SyncPostsOf(c) = {}
      /\ c \in DOMAIN decoders
      /\ decoders[c].phase # "ended" => PostsOf(c) = {}
      /\ decoders[c].phase = "ended" =>
           /\ Cardinality(PostsOf(c)) = 1
           /\ \A i \in PostsOf(c) :
                /\ IsRefresh(posted[i].msg)
                /\ Len(posted[i].msg.data) = Len(decoders[c].src)
                /\ \A n \in 1..Len(decoders[c].src) :
                     posted[i].msg.data[n] = flattenObject(decoders[c].src[n])

C3_Witness ==
  \E c \in CallIds :
    /\ calls[c].decoder = "getAvroData"
    /\ decoders[c].phase = "ended"
    /\ decoders[c].src = <<Nested1, Flat1>>
    /\ \E i \in PostsOf(c) : Len(posted[i].msg.data) = Len(decoders[c].src)

\* C4: when the file does not exist, refresh() shows the "doesn't exist"
\* notice and posts no payload of any kind, neither a refresh payload nor
\* an error payload.
C4_MissingFilePostsNothing ==
  \A c \in CallIds :
    ~calls[c].exists =>
      /\ \E n \in 1..Len(calls[c].notices) : calls[c].notices[n].text = "doesn't exist!"
      /\ PostsOf(c) = {}

\* C5: for an existing file whose extension is not in the extension table,
\* refresh() invokes no decoder and posts no payload of any kind.
C5_UnknownExtensionPostsNothing ==
  \A c \in CallIds :
    (calls[c].exists /\ calls[c].ext \notin KnownExts) =>
      /\ calls[c].decoder = "none"
      /\ PostsOf(c) = {}

\* C6: for a .parquet file refresh() surfaces only an informational notice:
\* no decoder runs, no error payload is posted and no error-level log line
\* is written.
C6_ParquetOnlyInforms ==
  \A c \in CallIds :
    (calls[c].exists /\ calls[c].ext = parquet) =>
      /\ calls[c].decoder = "none"
      /\ \A n \in 1..Len(calls[c].notices) : calls[c].notices[n].level = "information"
      /\ ErrorsOf(c) = {}
      /\ calls[c].errorLogs = 0

\* The type tag cut at its first '<'
TagBase(tag) ==
  IF indexOf(tag, "<") >= 0 THEN substring(tag, indexOf(tag, "<")) ELSE tag

\* The last field of the table that bears the name
LastFieldNamed(table, name) ==
  table.fields[SetMax({j \in 1..Len(table.fields) : table.fields[j].name = name})]

DistinctKeys(o) == \A i, j \in 1..Len(o) : o[i].k = o[j].k => i = j

\* C7 as stated: getArrowData returns exactly L rows, row i maps each
\* field's name to the i-th value of that field's column, and the schema maps
\* each field's name to dataTypes[base], base being the field's type tag cut
\* at its first '<'.
C7_Original ==
  pc = "decoded" =>
    /\ Len(rows) = dataTable.length
    /\ _schema.defined
    /\ \A j \in 1..Len(dataTable.fields) :
         LET f == dataTable.fields[j]
         IN /\ \A i \in 1..Len(rows) :
                 HasKey(rows[i], f.name) /\ Get(rows[i], f.name) = f.column[i]
            /\ HasKey(_schema.fields, f.name)
            /\ Get(_schema.fields, f.name) = dataTypes(TagBase(f.type))

\* C7 amended: getArrowData returns exactly L rows; the properties of every
\* row and of the schema are the field names, each once; row i maps a field
\* name to the i-th value of the column of the last field bearing that name,
\* and the schema maps it to dataTypes[base] for that field's type tag cut at
\* its first '<' (an unknown base gives an undefined entry).  When the field
\* names are distinct this is the claim as stated.
C7_LastFieldOfANameWins ==
  pc = "decoded" =>
    /\ Len(rows) = dataTable.length
    /\ _schema.defined
    /\ DistinctKeys(_schema.fields)
    /\ Keys(_schema.fields) = {dataTable.fields[j].name : j \in 1..Len(dataTable.fields)}
    /\ \A i \in 1..Len(rows) :
         /\ DistinctKeys(rows[i])
         /\ Keys(rows[i]) = Keys(_schema.fields)
    /\ \A name \in Keys(_schema.fields) :
         LET f == LastFieldNamed(dataTable, name)
         IN /\ \A i \in 1..Len(rows) : Get(rows[i], name) = f.column[i]
            /\ Get(_schema.fields, name) = dataTypes(TagBase(f.type))

C7_Witness ==
  /\ pc = "decoded"
  /\ dataTable.length = 2
  /\ Len(dataTable.fields) = 2
  /\ dataTable.fields[1].name = dataTable.fields[2].name
  /\ dataTable.fields[1].column # dataTable.fields[2].column
  /\ dataTable.fields[1].type = Int32
  /\ dataTable.fields[2].type = TimestampOf
  /\ Len(rows) = 2
  /\ Get(_schema.fields, dataTable.fields[2].name) = "datetime"

\* The scalar properties of a record, nested ones included, in the order
\* flattenObject visits them
RECURSIVE Leaves(_)
Leaves(o) ==
  IF o = <<>> THEN <<>>
  ELSE (IF IsNestedObject(Head(o).v) THEN Leaves(Head(o).v.o) ELSE <<Head(o)>>)
       \o Leaves(Tail(o))

\* C8: the values of flattenObject(r) are scalars or null, never a nested
\* record; flattening the result again gives the same result; and each key
\* of the result holds the value of the last scalar property of that name
\* met in r, so a later value overwrites an earlier one on collision.
C8_FlattenIdempotentLastWins ==
  pc = "flattened" =>
    /\ \A i \in 1..Len(flatObject) : ~IsNestedObject(flatObject[i].v)
    /\ DistinctKeys(flatObject)
    /\ flattenObject(flatObject) = flatObject
    /\ LET leaves == Leaves(obj)
       IN /\ Keys(flatObject) = Keys(leaves)
          /\ \A key \in Keys(leaves) :
               Get(flatObject, key) =
                 leaves[SetMax({i \in 1..Len(leaves) : leaves[i].k = key})].v

C8_Witness ==
  /\ pc = "flattened"
  /\ \E i \in 1..Len(obj) : IsNestedObject(obj[i].v)
                            /\ \E j \in 1..Len(obj[i].v.o) : IsNestedObject(obj[i].v.o[j].v)
  /\ \E i, j \in 1..Len(Leaves(obj)) :
       /\ i < j
       /\ Leaves(obj)[i].k = Leaves(obj)[j].k
       /\ Leaves(obj)[i].v # Leaves(obj)[j].v
       /\ Get(flatObject, Leaves(obj)[i].k) # Leaves(obj)[i].v

\* Decoder d has posted its payload
Delivered(d) ==
  /\ d \in DOMAIN decoders
  /\ decoders[d].phase = "ended"
  /\ Cardinality(PostsOf(d)) = 1

\* Every decode holds the rows its own decoder emitted and no others, and
\* posts at most one payload, made of those rows
DecodesKeptApart ==
  \A d \in DOMAIN decoders :
    /\ decoders[d].dataRows = SubSeq(decoders[d].src, 1, decoders[d].pos)
    /\ Cardinality(PostsOf(d)) <= 1
    /\ decoders[d].phase = "ended" =>
         /\ Cardinality(PostsOf(d)) = 1
         /\ \A i \in PostsOf(d) :
              /\ IsRefresh(posted[i].msg)
              /\ posted[i].msg.data = mapFlatten(decoders[d].src)

\* C9: overlapping refreshes of an .avro session are neither cancelled nor
\* merged: under any interleaving of the decoders' events, each payload holds
\* exactly the rows of its own decoder, no decode posts more than one, and
\* in the end every decode that was started has posted exactly one.
C9_OverlappingDecodesAllDeliver ==
  /\ []DecodesKeptApart
  /\ <>[](\A d \in DOMAIN decoders : Delivered(d))

\* The second decode was started before the first one ended, and ended first
C9_Witness ==
  /\ Delivered(1) /\ Delivered(2)
  /\ decoders[1].src # decoders[2].src
  /\ decoders[1].src # <<>> /\ decoders[2].src # <<>>
  /\ \E i \in PostsOf(1), j \in PostsOf(2) : j < i

\* C10: only a 'config' message changes the configuration, in one step that
\* does nothing else; refresh() and the decoder events leave it alone; and
\* every refresh payload, posted by refresh() or at a decoder's end event,
\* carries the configuration in force when it is posted.
C10_ConfigOnlyByMessage ==
  [][ /\ _config' # _config =>
           /\ calls' = calls
           /\ decoders' = decoders
           /\ posted' = posted
           /\ _schema' = _schema
      /\ \A i \in (Len(posted) + 1)..Len(posted') :
           IsRefresh(posted'[i].msg) =>
             /\ posted'[i].msg.config = _config
             /\ posted'[i].msg.config = _config'
    ]_vars

\* A payload posted at an end event carries a configuration set after refresh() was called
C10_Witness ==
  \E i \in 1..Len(posted) :
    /\ ~posted[i].sync
    /\ IsRefresh(posted[i].msg)
    /\ posted[i].msg.config # calls[posted[i].call].config
    /\ posted[i].msg.config = _config

\* C11: once the session is disposed (removed from the preview manager, its
\* panel disposed), nothing more is handed to its webview's postMessage,
\* whatever the interleaving of refresh(), decoder events and dispose(); this
\* includes an avro decode started before dispose() that ends after it.
C11_NoPostAfterDispose ==
  [][ (_panel.disposed /\ ~managed) => posted' = posted ]_vars

====
